---------------------------- MODULE Spec2Model ----------------------------
(***************************************************************************)
(* Model of organize_by_year.py: the year extractor                        *)
(* (extract_year_from_filename) and the batch organizer                    *)
(* (iter_candidate_files, organize_files_by_year) acting on a filesystem.  *)
(*                                                                         *)
(* A string is a sequence of characters, a character a one-element TLA+    *)
(* string; "sup2" stands for the single character U+00B2 (SUPERSCRIPT      *)
(* TWO), for which Python's str.isdigit() is True and str.isdecimal() is   *)
(* False.  A path is a sequence of components (strings); the filesystem is *)
(* a function from the existing paths to their nodes.                      *)
(***************************************************************************)
EXTENDS Naturals, Sequences, FiniteSets

VARIABLES
    fs,          \* the filesystem: existing path -> node
    fs0,         \* the filesystem before the first run
    fsStart,     \* the filesystem when the current run was started
    options,     \* OrganizeOptions of the current run
    pc,          \* position of the current run in organize_files_by_year
    outcome,     \* how the current run ended
    candidates,  \* list built at line 60
    to_process,  \* list built at lines 61-73
    skipped,     \* list built at lines 62-70
    idx,         \* index of the execute loop (line 92), 1-based
    moved,       \* counter of lines 91-101
    calls,       \* the copier calls of this run: [src, dst, raised]
    errors,      \* "Error processing" reports of this run, in order
    run,         \* 1 or 2: which run of the program this is
    second,      \* how the second run was started
    prev,        \* what the first run left behind
    filename,    \* input of extract_year_from_filename (extractor spec)
    result,      \* its return value
    xpc          \* "call" before, "done" after the extraction

orgVars == <<fs, fs0, fsStart, options, pc, outcome, candidates, to_process,
             skipped, idx, moved, calls, errors, run, second, prev>>
exVars == <<filename, result, xpc>>
vars == <<orgVars, exVars>>

-----------------------------------------------------------------------------
(* Characters and str.isdigit()                                            *)

DecimalDigits == {"0", "1", "2", "3", "4", "5", "6", "7", "8", "9"}

\* characters that are digits for str.isdigit() without being decimal digits
OtherDigits == {"sup2"}

None == <<"None">>

\* c.isdigit() for one character
IsDigitChar(c) == c \in DecimalDigits \cup OtherDigits

\* part.isdigit(): non-empty and every character is a digit
IsDigit(part) == Len(part) > 0 /\ \A i \in 1..Len(part) : IsDigitChar(part[i])

\* filename.split("_"): every "_" separates, empty segments are kept
RECURSIVE SplitFrom(_, _, _)
SplitFrom(s, i, cur) ==
    IF i > Len(s) THEN <<cur>>
    ELSE IF s[i] = "_" THEN <<cur>> \o SplitFrom(s, i + 1, <<>>)
    ELSE SplitFrom(s, i + 1, Append(cur, s[i]))

Split(s) == SplitFrom(s, 1, <<>>)

YearTokenLen == 8
YearLen == 4

\* a bug that would test only the first 8 characters of a segment
Qualifies_Prefix(part) ==
    Len(part) >= YearTokenLen /\ IsDigit(SubSeq(part, 1, YearTokenLen))

\* the test of line 33
Qualifies(part) == Len(part) = YearTokenLen /\ IsDigit(part)

RECURSIVE FirstYear(_, _)
FirstYear(parts, i) ==
    IF i > Len(parts) THEN None
    ELSE IF Qualifies(parts[i]) THEN SubSeq(parts[i], 1, YearLen)
    ELSE FirstYear(parts, i + 1)

extract_year_from_filename(name) == FirstYear(Split(name), 1)


-----------------------------------------------------------------------------
(* Names, paths and the filesystem                                         *)

\* file names used as inputs
NameA == <<"a", "_", "2", "0", "1", "5", "0", "4", "1", "4">>
NameB == <<"b", "_", "2", "0", "1", "6", "0", "1", "0", "1">>
\* the date token carries an extension: no segment is 8 characters long
NameExt == <<"n", "_", "2", "0", "1", "5", "0", "4", "1", "4", ".", "T">>
NameHidden == <<".", "h", "_", "2", "0", "1", "5", "0", "4", "1", "4">>
\* Path(__file__).name
ScriptName == <<"o", "r", "g", "a", "n", "i", "z", "e", "_", "b", "y", "_", "y", "e", "a", "r", ".", "p", "y">>

Y2015 == <<"2", "0", "1", "5">>
Y2016 == <<"2", "0", "1", "6">>

SourceDir == <<<<"s">>>>
SubDir == SourceDir \o <<<<"s", "u", "b">>>>
DestOutside == <<<<"d">>>>
DestInside == SourceDir \o <<<<"o", "u", "t">>>>

Dir == [kind |-> "dir", data |-> <<>>]
File(d) == [kind |-> "file", data |-> d]
\* what an interrupted copy leaves at its destination
Partial == File(<<<<"partial">>>>)

Parent(p) == SubSeq(p, 1, Len(p) - 1)
BaseName(p) == p[Len(p)]
Prefixes(p) == {SubSeq(p, 1, i) : i \in 1..Len(p)}
IsUnder(d, p) == Len(d) < Len(p) /\ SubSeq(p, 1, Len(d)) = d

\* Path.exists()
Exists(f, p) == p \in DOMAIN f

\* Path.is_file()
IsFile(f, p) == p \in DOMAIN f /\ f[p].kind = "file"

\* Path.is_dir(); the root of the filesystem is a directory
IsDir(f, p) == p = <<>> \/ (p \in DOMAIN f /\ f[p].kind = "dir")

Put(f, p, node) == [q \in DOMAIN f \cup {p} |-> IF q = p THEN node ELSE f[q]]
Remove(f, p) == [q \in DOMAIN f \ {p} |-> f[q]]

\* Path.mkdir(parents=True, exist_ok=True) raises iff the path or one of its
\* ancestors is something other than a directory
MkdirRaises(f, p) == \E q \in Prefixes(p) : q \in DOMAIN f /\ f[q].kind # "dir"

MkdirP(f, p) ==
    [q \in DOMAIN f \cup Prefixes(p) |-> IF q \in DOMAIN f THEN f[q] ELSE Dir]

\* every existing path has its ancestors, and they are directories
WellFormed(f) == \A p \in DOMAIN f : IsDir(f, Parent(p))

-----------------------------------------------------------------------------
(* Enumeration: iter_candidate_files                                       *)

\* source.glob("*") or source.rglob("*"): hidden entries included
Glob(f, source, recursive) ==
    IF ~IsDir(f, source) THEN {}
    ELSE {p \in DOMAIN f :
            IsUnder(source, p) /\ (recursive \/ Len(p) = Len(source) + 1)}

StartsWithDot(name) == Len(name) > 0 /\ name[1] = "."

\* the paths iter_candidate_files yields
CandidateSet(f, source, recursive) ==
    {p \in Glob(f, source, recursive) :
        IsFile(f, p) /\ ~StartsWithDot(BaseName(p))}

RECURSIVE SeqOfSet(_)
SeqOfSet(S) ==
    IF S = {} THEN <<>>
    ELSE LET x == CHOOSE y \in S : TRUE IN <<x>> \o SeqOfSet(S \ {x})

Reverse(s) == [i \in 1..Len(s) |-> s[Len(s) + 1 - i]]

\* the directory listing orders the enumeration can come in
Orders == {"asc", "desc"}

iter_candidate_files(f, source, recursive, order) ==
    LET s == SeqOfSet(CandidateSet(f, source, recursive))
    IN IF order = "asc" THEN s ELSE Reverse(s)


-----------------------------------------------------------------------------
(* Planning: lines 64-73                                                   *)

\* "if not year"
NotYear(year) == year = None \/ year = <<>>

RECURSIVE PlanFrom(_, _, _)
PlanFrom(cands, dest, i) ==
    IF i > Len(cands) THEN [to_process |-> <<>>, skipped |-> <<>>]
    ELSE LET rest == PlanFrom(cands, dest, i + 1)
             file_path == cands[i]
             name == BaseName(file_path)
             year == extract_year_from_filename(name)
         IN IF name = ScriptName THEN rest
            ELSE IF NotYear(year)
                 THEN [rest EXCEPT !.skipped = <<file_path>> \o @]
                 ELSE [rest EXCEPT !.to_process =
                         <<[src |-> file_path, dst |-> dest \o <<year, name>>]>> \o @]

BuildPlan(cands, dest) == PlanFrom(cands, dest, 1)

-----------------------------------------------------------------------------
(* Year folders: lines 86-88                                               *)

\* ord(c) of the characters a year can hold
CodePoint(c) ==
    CASE c = "0" -> 48 [] c = "1" -> 49 [] c = "2" -> 50 [] c = "3" -> 51
      [] c = "4" -> 52 [] c = "5" -> 53 [] c = "6" -> 54 [] c = "7" -> 55
      [] c = "8" -> 56 [] c = "9" -> 57 [] c = "sup2" -> 178

\* a < b for strings, as Python compares them
RECURSIVE StrLess(_, _)
StrLess(a, b) ==
    IF a = <<>> THEN b # <<>>
    ELSE IF b = <<>> THEN FALSE
    ELSE IF a[1] = b[1] THEN StrLess(Tail(a), Tail(b))
    ELSE CodePoint(a[1]) < CodePoint(b[1])

\* sorted(S)
RECURSIVE Sorted(_)
Sorted(S) ==
    IF S = {} THEN <<>>
    ELSE LET m == CHOOSE x \in S : \A y \in S \ {x} : StrLess(x, y)
         IN <<m>> \o Sorted(S \ {m})

\* {dst.parent.name for _, dst in to_process}
YearNames(plan) == {BaseName(Parent(plan[i].dst)) : i \in 1..Len(plan)}

\* the mkdir loop: stops at the first mkdir that raises
RECURSIVE MkDirsFrom(_, _, _, _)
MkDirsFrom(f, dest, years, i) ==
    IF i > Len(years) THEN [fs |-> f, raised |-> FALSE]
    ELSE IF MkdirRaises(f, dest \o <<years[i]>>) THEN [fs |-> f, raised |-> TRUE]
    ELSE MkDirsFrom(MkdirP(f, dest \o <<years[i]>>), dest, years, i + 1)

MkYearDirs(f, dest, plan) == MkDirsFrom(f, dest, Sorted(YearNames(plan)), 1)

-----------------------------------------------------------------------------
(* The copier: shutil.copy2 or shutil.move (line 84)                       *)

\* a destination that is a directory receives the file under its own name
Target(f, src, dst) == IF IsDir(f, dst) THEN dst \o <<BaseName(src)>> ELSE dst

\* the cases in which the call raises whatever the device does
MustRaise(f, mode, src, dst) ==
    LET t == Target(f, src, dst)
    IN \/ ~IsFile(f, src)
       \/ ~IsDir(f, Parent(t))
       \/ IsDir(f, t)
       \/ mode = "copy" /\ src = t
       \/ mode = "move" /\ IsDir(f, dst) /\ Exists(f, t)

\* io: "ok", "error" (nothing written) or "partial" (a truncated destination)
Copier(f, mode, src, dst, io) ==
    LET t == Target(f, src, dst)
    IN IF MustRaise(f, mode, src, dst) \/ io = "error"
          THEN [fs |-> f, raised |-> TRUE]
       ELSE IF io = "partial"
          THEN [fs |-> Put(f, t, Partial), raised |-> TRUE]
       ELSE IF mode = "copy"
          THEN [fs |-> Put(f, t, File(f[src].data)), raised |-> FALSE]
       ELSE [fs |-> Put(Remove(f, src), t, f[src]), raised |-> FALSE]


-----------------------------------------------------------------------------
(* Initial states                                                          *)

\* at most this many files lie under the source directory at the start
MaxFiles == 3
\* at most this many copier calls of one run fail on the device
MaxFailures == 1

SourceSlots ==
    {SourceDir \o <<NameA>>, SourceDir \o <<NameExt>>, SourceDir \o <<NameHidden>>,
     SourceDir \o <<ScriptName>>, SubDir \o <<NameA>>, SubDir \o <<NameB>>}

Dests == {DestOutside, DestInside}

\* destKind: what is at the destination root; y15: what is at dest/2015
\* ("dirA": a directory that already holds NameA); y16: what is at dest/2016
InitialFs(srcExists, files, dest, destKind, y15, y16) ==
    LET dirs == (IF srcExists THEN {SourceDir} ELSE {})
                \cup {Parent(p) : p \in files}
                \cup (IF destKind = "dir" THEN {dest} ELSE {})
                \cup (IF y15 \in {"dir", "dirA"} THEN {dest \o <<Y2015>>} ELSE {})
        regs == files
                \cup (IF destKind = "file" THEN {dest} ELSE {})
                \cup (IF y15 = "dirA" THEN {dest \o <<Y2015, NameA>>} ELSE {})
                \cup (IF y16 = "file" THEN {dest \o <<Y2016>>} ELSE {})
    IN [p \in dirs \cup regs |-> IF p \in dirs THEN Dir ELSE File(p)]

EmptyFs == [p \in {} |-> Dir]
NoOptions == [source |-> <<>>, dest |-> <<>>, mode |-> "copy",
              recursive |-> FALSE, dry_run |-> TRUE]
NoPrev == [fs |-> EmptyFs, fsStart |-> EmptyFs, options |-> NoOptions,
           outcome |-> "none", moved |-> 0, calls |-> <<>>, errors |-> <<>>,
           candidates |-> <<>>, to_process |-> <<>>, skipped |-> <<>>]

Init ==
    /\ \E srcExists \in BOOLEAN, files \in SUBSET SourceSlots, dest \in Dests,
          destKind \in {"absent", "file", "dir"},
          y15 \in {"absent", "dir", "dirA"}, y16 \in {"absent", "file"},
          mode \in {"copy", "move"}, recursive \in BOOLEAN, dry_run \in BOOLEAN :
          /\ Cardinality(files) <= MaxFiles
          /\ ~srcExists => files = {}
          /\ (~srcExists /\ dest = DestInside) => destKind = "absent"
          /\ destKind # "dir" => (y15 = "absent" /\ y16 = "absent")
          /\ fs = InitialFs(srcExists, files, dest, destKind, y15, y16)
          /\ options = [source |-> SourceDir, dest |-> dest, mode |-> mode,
                        recursive |-> recursive, dry_run |-> dry_run]
    /\ fs0 = fs
    /\ fsStart = fs
    /\ pc = "start"
    /\ outcome = "running"
    /\ candidates = <<>>
    /\ to_process = <<>>
    /\ skipped = <<>>
    /\ idx = 1
    /\ moved = 0
    /\ calls = <<>>
    /\ errors = <<>>
    /\ run = 1
    /\ second = "none"
    /\ prev = NoPrev
    /\ filename = <<>>
    /\ result = None
    /\ xpc = "idle"

-----------------------------------------------------------------------------
(* organize_files_by_year                                                  *)

\* a bug that would create the destination before looking at the source
StartResult_MkdirFirst(f, o) ==
    IF MkdirRaises(f, o.dest)
        THEN [fs |-> f, pc |-> "done", outcome |-> "mkdir_error"]
    ELSE IF ~Exists(MkdirP(f, o.dest), o.source)
        THEN [fs |-> MkdirP(f, o.dest), pc |-> "done", outcome |-> "source_missing"]
    ELSE [fs |-> MkdirP(f, o.dest), pc |-> "plan", outcome |-> "running"]

\* lines 55-58: FileNotFoundError, or the destination root is made
StartResult(f, o) ==
    IF ~Exists(f, o.source)
        THEN [fs |-> f, pc |-> "done", outcome |-> "source_missing"]
    ELSE IF MkdirRaises(f, o.dest)
        THEN [fs |-> f, pc |-> "done", outcome |-> "mkdir_error"]
    ELSE [fs |-> MkdirP(f, o.dest), pc |-> "plan", outcome |-> "running"]

Start ==
    /\ pc = "start"
    /\ LET r == StartResult(fs, options)
       IN /\ fs' = r.fs
          /\ pc' = r.pc
          /\ outcome' = r.outcome
    /\ UNCHANGED <<fs0, fsStart, options, candidates, to_process, skipped, idx,
                   moved, calls, errors, run, second, prev, exVars>>

\* lines 60-82: enumerate, plan, print the header; "Nothing to do." on an
\* empty plan
Plan ==
    /\ pc = "plan"
    /\ \E order \in Orders :
         LET cands == iter_candidate_files(fs, options.source, options.recursive, order)
             plan == BuildPlan(cands, options.dest)
         IN /\ candidates' = cands
            /\ to_process' = plan.to_process
            /\ skipped' = plan.skipped
            /\ IF plan.to_process = <<>>
                  THEN pc' = "done" /\ outcome' = "nothing"
                  ELSE pc' = "mkdirs" /\ outcome' = outcome
    /\ UNCHANGED <<fs, fs0, fsStart, options, idx, moved, calls, errors, run,
                   second, prev, exVars>>

\* lines 84-91: the year folders are made, in dry-run too; moved = 0
MakeYearFolders ==
    /\ pc = "mkdirs"
    /\ LET r == MkYearDirs(fs, options.dest, to_process)
       IN /\ fs' = r.fs
          /\ IF r.raised
                THEN pc' = "done" /\ outcome' = "mkdir_error"
                ELSE pc' = "exec" /\ outcome' = outcome
    /\ idx' = 1
    /\ moved' = 0
    /\ UNCHANGED <<fs0, fsStart, options, candidates, to_process, skipped, calls,
                   errors, run, second, prev, exVars>>

\* a bug that would not see what is at the destination
DstExists_Never(f, dst) == FALSE

\* line 93: dst.exists()
DstExists(f, dst) == Exists(f, dst)

\* a bug that would count a failed call too
MovedAfter_Always(m, raised) == m + 1

\* lines 100-103: moved += 1 is skipped when the copier raises
MovedAfter(m, raised) == IF raised THEN m ELSE m + 1

\* what the device can do to the next copier call
IoOutcomes(errs) ==
    IF Len(errs) < MaxFailures THEN {"ok", "error", "partial"} ELSE {"ok"}

\* lines 92-103: one iteration of the execute loop
ExecEntry ==
    /\ pc = "exec"
    /\ idx <= Len(to_process)
    /\ LET src == to_process[idx].src
           dst == to_process[idx].dst
       IN IF DstExists(fs, dst)
             THEN UNCHANGED <<fs, moved, calls, errors>>
          ELSE IF options.dry_run
             THEN moved' = moved + 1 /\ UNCHANGED <<fs, calls, errors>>
          ELSE \E io \in IoOutcomes(errors) :
                 LET r == Copier(fs, options.mode, src, dst, io)
                 IN /\ fs' = r.fs
                    /\ moved' = MovedAfter(moved, r.raised)
                    /\ calls' = Append(calls, [src |-> src, dst |-> dst,
                                               raised |-> r.raised])
                    /\ errors' = IF r.raised THEN Append(errors, BaseName(src))
                                 ELSE errors
    /\ idx' = idx + 1
    /\ UNCHANGED <<fs0, fsStart, options, pc, outcome, candidates, to_process,
                   skipped, run, second, prev, exVars>>

\* lines 105-109: the summary
Summary ==
    /\ pc = "exec"
    /\ idx > Len(to_process)
    /\ pc' = "done"
    /\ outcome' = "summary"
    /\ UNCHANGED <<fs, fs0, fsStart, options, candidates, to_process, skipped,
                   idx, moved, calls, errors, run, second, prev, exVars>>

-----------------------------------------------------------------------------
(* A second run of the program                                             *)

ThisRun == [fs |-> fs, fsStart |-> fsStart, options |-> options,
            outcome |-> outcome, moved |-> moved, calls |-> calls,
            errors |-> errors, candidates |-> candidates,
            to_process |-> to_process, skipped |-> skipped]

Restart(f, o, how) ==
    /\ pc = "done"
    /\ run = 1
    /\ prev' = ThisRun
    /\ run' = 2
    /\ second' = how
    /\ fs' = f
    /\ fsStart' = f
    /\ options' = o
    /\ pc' = "start"
    /\ outcome' = "running"
    /\ candidates' = <<>>
    /\ to_process' = <<>>
    /\ skipped' = <<>>
    /\ idx' = 1
    /\ moved' = 0
    /\ calls' = <<>>
    /\ errors' = <<>>
    /\ UNCHANGED <<fs0, exVars>>

\* the program is run again with the same options on what the first run left
RunAgain == Restart(fs, options, "again")

\* after a dry-run, the live run with the same options is started from the
\* filesystem the dry-run was started from
RunLiveFromInitial ==
    /\ options.dry_run
    /\ Restart(fs0, [options EXCEPT !.dry_run = FALSE], "live")

Next == Start \/ Plan \/ MakeYearFolders \/ ExecEntry \/ Summary
        \/ RunAgain \/ RunLiveFromInitial

Spec == Init /\ [][Next]_vars

\* the filesystem stays a tree
TypeOK == WellFormed(fs) /\ pc \in {"start", "plan", "mkdirs", "exec", "done"}


-----------------------------------------------------------------------------
(* The extractor on its own: every file name made of up to MaxSegs         *)
(* segments joined by "_"                                                  *)

\* at most this many "_"-separated segments in a file name
MaxSegs == 3

Segments ==
    {<<"2", "0", "1", "5", "0", "4", "1", "4">>,
     <<"9", "9", "9", "9", "1", "3", "0", "1">>,
     <<"2", "0", "1", "5", "0", "4", "1">>,
     <<"2", "0", "1", "5", "0", "4", "1", "4", "1">>,
     <<"2", "0", "1", "5", "0", "4", "1", "a">>,
     <<"2", "0", "1", "8", "0", "1", "0", "1", ".", "T">>,
     <<"L", "C", "0", "8">>,
     <<>>,
     <<"2", "0", "1", "6", "0", "1", "0", "sup2">>}

RECURSIVE Join(_)
Join(segs) ==
    IF Len(segs) = 1 THEN segs[1]
    ELSE segs[1] \o <<"_">> \o Join(Tail(segs))

Filenames == {Join(segs) : segs \in UNION {[1..n -> Segments] : n \in 1..MaxSegs}}

InitExtract ==
    /\ filename \in Filenames
    /\ result = None
    /\ xpc = "call"
    /\ fs = EmptyFs
    /\ fs0 = EmptyFs
    /\ fsStart = EmptyFs
    /\ options = NoOptions
    /\ pc = "idle"
    /\ outcome = "none"
    /\ candidates = <<>>
    /\ to_process = <<>>
    /\ skipped = <<>>
    /\ idx = 1
    /\ moved = 0
    /\ calls = <<>>
    /\ errors = <<>>
    /\ run = 1
    /\ second = "none"
    /\ prev = NoPrev

Extract ==
    /\ xpc = "call"
    /\ result' = extract_year_from_filename(filename)
    /\ xpc' = "done"
    /\ UNCHANGED <<filename, orgVars>>

NextExtract == Extract

SpecExtract == InitExtract /\ [][NextExtract]_vars

-----------------------------------------------------------------------------
(* Properties                                                              *)

\* the copier calls of this run that returned normally
OkCalls == {k \in 1..Len(calls) : ~calls[k].raised}
CallSources == {calls[k].src : k \in 1..Len(calls)}

\* the run built its plan
Planned == pc \in {"mkdirs", "exec"}
           \/ (pc = "done" /\ outcome \in {"nothing", "summary"})
           \/ (pc = "done" /\ outcome = "mkdir_error" /\ to_process # <<>>)

\* the run is in, or through, the execute loop
Executing == pc = "exec" \/ (pc = "done" /\ outcome = "summary")

\* C1: never overwrite.  In the execute loop, when something exists at the
\* destination of the plan entry that is reached, the copier is not called
\* and the filesystem is left as it is; and no step of the loop changes what
\* an existing path holds, other than taking away the source of a move.  A
\* destination written earlier in the same run is covered: it exists.
C1_NeverOverwrite ==
    [][pc = "exec" =>
        /\ (idx <= Len(to_process) /\ Exists(fs, to_process[idx].dst))
              => (calls' = calls /\ fs' = fs)
        /\ \A p \in DOMAIN fs :
              \/ p \in DOMAIN fs' /\ fs'[p] = fs[p]
              \/ /\ idx <= Len(to_process)
                 /\ p = to_process[idx].src
                 /\ options.mode = "move"]_vars

\* C1 witness: a live run ended in which two plan entries had one
\* destination; the copier was called once, for the first of them, and the
\* destination holds the first one's content
C1_Witness ==
    /\ pc = "done" /\ outcome = "summary" /\ ~options.dry_run
    /\ errors = <<>>
    /\ \E i, j \in 1..Len(to_process) :
          /\ i < j
          /\ to_process[i].dst = to_process[j].dst
          /\ Len(calls) = 1
          /\ calls[1].src = to_process[i].src
          /\ IsFile(fs, to_process[i].dst)
          /\ fs[to_process[i].dst].data = to_process[i].src

\* C2 (as claimed): a dry-run started with an existing source leaves the
\* filesystem, files and directories, as it was when the run started
C2_DryRunLeavesFilesystem ==
    (options.dry_run /\ Exists(fsStart, options.source)) => fs = fsStart

\* C3 (as claimed): the result is the first 4 characters of the leftmost
\* segment that is 8 characters long and made of decimal digits only, and
\* None if and only if there is no such segment
C3_DecimalDigitsOnly ==
    xpc = "done" =>
        LET parts == Split(filename)
            Q == {i \in 1..Len(parts) :
                    /\ Len(parts[i]) = 8
                    /\ \A j \in 1..8 : parts[i][j] \in DecimalDigits}
        IN IF Q = {} THEN result = None
           ELSE \E i \in Q : /\ \A k \in Q : i <= k
                             /\ result = SubSeq(parts[i], 1, 4)

\* C4: partial-failure tolerance.  A copier call that raises is reported,
\* leaves the count of written files as it is and is followed by the next
\* plan entry; a run that had a failure ends in the summary, with every
\* plan entry visited and only the successful calls counted.
C4_PartialFailure ==
    /\ [][(Len(calls') = Len(calls) + 1 /\ calls'[Len(calls')].raised) =>
            /\ moved' = moved
            /\ errors' = Append(errors, BaseName(to_process[idx].src))
            /\ idx' = idx + 1
            /\ pc' = "exec"]_vars
    /\ []((pc = "done" /\ errors # <<>>) =>
            /\ outcome = "summary"
            /\ idx = Len(to_process) + 1
            /\ moved = Cardinality(OkCalls)
            /\ \A i \in 1..Len(to_process) :
                  \/ to_process[i].src \in CallSources
                  \/ Exists(fs, to_process[i].dst))

\* C4 witness: a run reached the summary after a call that failed and a
\* later call that succeeded
C4_Witness ==
    /\ pc = "done" /\ outcome = "summary"
    /\ \E i, j \in 1..Len(calls) : i < j /\ calls[i].raised /\ ~calls[j].raised
    /\ moved = 1

\* C5: with the source missing the run ends with the fatal error at its
\* first step, in dry-run and in live mode alike: nothing is created, the
\* copier is never called, the filesystem is what it was
C5_SourceMissing ==
    ~Exists(fsStart, options.source) =>
        /\ pc \in {"start", "done"}
        /\ pc = "done" => outcome = "source_missing"
        /\ fs = fsStart
        /\ calls = <<>>

\* C5 witness: a live run failed on the missing source and the destination
\* root, absent before, is still absent
C5_Witness ==
    /\ pc = "done" /\ outcome = "source_missing" /\ ~options.dry_run
    /\ ~Exists(fs, options.dest)

\* the destination root and everything under it
DestTree(f, dest) ==
    [p \in {q \in DOMAIN f : q = dest \/ IsUnder(dest, q)} |-> f[p]]

C7_OnlySourceMissingIsFatal ==
    (pc = "done" /\ Exists(fsStart, options.source)) =>
        outcome \in {"summary", "nothing"}

\* a file name with a segment of 8 digits
HasYearToken(name) ==
    \E i \in 1..Len(Split(name)) :
        Len(Split(name)[i]) = 8 /\ IsDigit(Split(name)[i])

\* the files the run can see under its source when it starts
SeenAtStart ==
    {p \in DOMAIN fsStart :
        /\ IsFile(fsStart, p)
        /\ IsUnder(options.source, p)
        /\ options.recursive \/ Len(p) = Len(options.source) + 1}

Untouched(p) == IsFile(fs, p) /\ fs[p] = fsStart[p]

\* C8: skipped files are left untouched.  A file without a year token, and
\* a file whose destination exists when the run starts or when its plan
\* entry is reached, stays at its source path with its content, in copy and
\* in move mode, and only successful copier calls are counted as written.
C8_SkippedUntouched ==
    /\ \A p \in SeenAtStart :
          ~HasYearToken(BaseName(p)) => (Untouched(p) /\ p \notin CallSources)
    /\ \A i \in 1..Len(to_process) :
          Exists(fsStart, to_process[i].dst) =>
              (Untouched(to_process[i].src) /\ to_process[i].src \notin CallSources)
    /\ Executing =>
          \A i \in 1..(idx - 1) :
              to_process[i].src \notin CallSources => Untouched(to_process[i].src)
    /\ (Executing /\ ~options.dry_run) => moved = Cardinality(OkCalls)

\* C8 witness: a run in move mode reached the summary having moved a file,
\* skipped a file without a year token and skipped a file whose destination
\* existed
C8_Witness ==
    /\ pc = "done" /\ outcome = "summary"
    /\ ~options.dry_run /\ options.mode = "move"
    /\ moved > 0
    /\ \E p \in SeenAtStart : ~HasYearToken(BaseName(p)) /\ ~StartsWithDot(BaseName(p))
    /\ \E i \in 1..Len(to_process) :
          Exists(fsStart, to_process[i].dst) /\ to_process[i].src # to_process[i].dst

\* C9 (as claimed): the candidates, whose number is printed as "Found", are
\* exactly the regular files under the source that are neither hidden nor
\* named like the script
C9_FoundExcludesScript ==
    Planned =>
        LET expected == {p \in SeenAtStart :
                            /\ ~StartsWithDot(BaseName(p))
                            /\ BaseName(p) # ScriptName}
        IN /\ Len(candidates) = Cardinality(expected)
           /\ {candidates[i] : i \in 1..Len(candidates)} = expected

\* C10 (as claimed): the number a dry-run reports as planned is the number
\* the live run with the same options, started from the same filesystem,
\* reports as written, when no copier call fails
C10_DryRunPredictsLive ==
    (/\ run = 2 /\ second = "live" /\ pc = "done" /\ outcome = "summary"
     /\ prev.outcome = "summary" /\ errors = <<>>)
        => moved = prev.moved

=============================================================================
